---- MODULE Spec2Model ----
(***************************************************************************)
(* OTP issuance / verification of src/postgres-server.js (first server in  *)
(* the file, lines 1-1034): the /api/send-otp, /api/verify-otp and         *)
(* /api/cleanup-otps handlers over the two stores the server keeps, the    *)
(* PostgreSQL table email_otps and the array memoryData.emailOtps.         *)
(*                                                                         *)
(* A handler is an async function: between two awaits it runs without      *)
(* interruption, and every `await pool.query(...)` is one statement that   *)
(* the database executes atomically at some later instant.  So the memory  *)
(* branch of a handler is one step and the Postgres branch is one step per *)
(* query; steps of different requests interleave freely.                   *)
(*                                                                         *)
(* Time is one clock read by Date.now(), new Date() and SQL NOW(); one     *)
(* unit of `now` is five minutes.                                          *)
(*                                                                         *)
(* `last` is the request answered by the latest step, with its response    *)
(* and what was true when the response was written (NoLast when the step   *)
(* answered nothing).  spent is the set of ids of the rows of email_otps   *)
(* that a verify-otp was answered success for (SERIAL never reuses an id). *)
(* issued, prevIssued and consumed are the history of one email, Watched   *)
(* (the handlers treat every email alike): the code the last send-otp      *)
(* stored for it, the one stored before that (while unexpired), and the    *)
(* code it last verified with.  A memory record's id is the clock value of *)
(* its request: two requests at one clock value read the same millisecond. *)
(*                                                                         *)
(* The same server's /api/register, /api/quiz-result, /api/quiz-history,   *)
(* /api/activity and DELETE /api/users/:id handlers follow, over the users *)
(* store of the mode in use, the tables quiz_sessions and activities and   *)
(* the array memoryData.quizSessions; then callApiWithBackoff and          *)
(* generateContent of the App component (src/unnamed/part_003), whose      *)
(* React state is app and whose invocations are gen.                       *)
(***************************************************************************)
EXTENDS Integers, Sequences, FiniteSets, TLC

\* ---------------------------------------------------------------- bounds
MaxTime == 3
MaxId == 2
\* the most elements memoryData.quizSessions grows to
MaxRows == 2

\* ------------------------------------------------------------- constants
\* 10 * 60 * 1000 ms, in units of five minutes
OtpTtl == 2
\* LIMIT 10 of the quiz-history query
HistoryLimit == 10

Procs == {1, 2}
Emails == {"a@b.com", "c@d.com"}
\* the email whose history is kept, and that overlapping requests are about
Watched == "a@b.com"
RaceEmails == {Watched}
\* values of Math.floor(Math.random() * 900000) that generateOTP draws
Draws == {0, 383920}
\* the otp field of the bodies of /api/verify-otp
OtpInputs == {"100000", "483920", "", "12345", "1234567"}

VARIABLES usePostgres, dbInit, now, email_otps, nextId, emailOtps,
          pc, req, last, spent, issued, prevIssued, consumed,
          twin, users, verifiedEmails, entitlements, premium,
          serial, quiz_sessions, quizSessions, activities, app, gen, fetched

vars == <<usePostgres, dbInit, now, email_otps, nextId, emailOtps,
          pc, req, last, spent, issued, prevIssued, consumed,
          twin, users, verifiedEmails, entitlements, premium,
          serial, quiz_sessions, quizSessions, activities, app, gen, fetched>>

store == <<email_otps, nextId, emailOtps>>
ghost == <<issued, prevIssued, consumed>>
\* state that the OTP handlers neither read nor write
\* the quiz and activity stores, and the next value of each SERIAL column
data == <<serial, quiz_sessions, quizSessions, activities>>
\* the React state of the App component, its generateContent invocations,
\* and the history of the fetches of one of them
ui == <<app, gen, fetched>>
aside == <<twin, users, verifiedEmails, entitlements, premium, data, ui>>

\* ------------------------------------------------------------- helpers
\* Math.floor(100000 + Math.random() * 900000).toString(), r = floor(random * 900000)
generateOTP(r) == ToString(100000 + r)

NoReq == [kind |-> "none", email |-> "", otp |-> "", expiresAt |-> 0,
          t0 |-> 0, rowId |-> 0, rowT0 |-> 0, checkedAt |-> 0,
          stored |-> FALSE]

NoResp == [status |-> 0, success |-> FALSE, error |-> "", message |-> "",
           emailSent |-> FALSE, debugOtp |-> "", devOtp |-> ""]

None == [otp |-> "", expires_at |-> 0]

NoObs == [removed |-> 0, changed |-> FALSE, twice |-> FALSE, rec |-> "none",
          era |-> "before", issuedOtp |-> FALSE, issuedLive |-> FALSE,
          issuedPast |-> FALSE, prevOtp |-> FALSE, prevLive |-> FALSE,
          wasConsumed |-> FALSE]

\* res.json(...) / res.status(s).json(...)
Json(status, success, error, message) ==
    [NoResp EXCEPT !.status = status, !.success = success,
                   !.error = error, !.message = message]

\* Array.prototype.filter
Filter(s, Keep(_)) == SelectSeq(s, Keep)

\* Array.prototype.find: index of the first element that satisfies Test, 0 if none
Find(s, Test(_)) ==
    LET I == {i \in 1..Len(s) : Test(s[i])}
    IN  IF I = {} THEN 0 ELSE CHOOSE i \in I : \A j \in I : i <= j

InFlight(p) == pc[p] # "idle"
Quiet == \A q \in Procs : ~InFlight(q)

\* the records of email e in the store that is in use
RecordsOf(e) ==
    IF usePostgres THEN {o \in email_otps : o.email = e}
    ELSE {emailOtps[i] : i \in {j \in 1..Len(emailOtps) : emailOtps[j].email = e}}

\* the record of its email that request r is about: the one holding the
\* submitted code if there is one (a set of at most one record)
RecordFor(r) ==
    LET all == RecordsOf(r.email)
        same == {o \in all : o.otp = r.otp}
    IN  IF all = {} THEN {}
        ELSE IF same # {} THEN {CHOOSE o \in same : TRUE}
        ELSE {CHOOSE o \in all : TRUE}

\* the instant t against the expiry of a record
Era(t, expiresAt) ==
    IF t < expiresAt THEN "before" ELSE IF t = expiresAt THEN "at" ELSE "after"

\* what is true of request r at the step that answers it: what the step does
\* to the stores, the record r found there, and what the history says of r
Observe(r) ==
    LET found == RecordFor(r)
        base == [NoObs EXCEPT
                   !.removed = (Cardinality(email_otps) - Cardinality(email_otps'))
                               + (Len(emailOtps) - Len(emailOtps')),
                   !.changed = (email_otps' # email_otps \/ emailOtps' # emailOtps)]
    IN  IF r.kind # "verify" THEN base
        ELSE [base EXCEPT
                !.twice = usePostgres /\ r.rowId \in spent,
                !.rec = IF found = {} THEN "none"
                        ELSE IF (CHOOSE o \in found : TRUE).otp = r.otp THEN "match"
                        ELSE "other",
                !.era = IF found = {} THEN "before"
                        ELSE Era(r.checkedAt, (CHOOSE o \in found : TRUE).expires_at),
                !.issuedOtp = r.email = Watched /\ issued # None /\ issued.otp = r.otp,
                !.issuedLive = r.email = Watched /\ r.checkedAt < issued.expires_at,
                !.issuedPast = r.email = Watched /\ r.checkedAt > issued.expires_at,
                !.prevOtp = r.email = Watched /\ prevIssued # None /\ prevIssued.otp = r.otp,
                !.prevLive = r.email = Watched /\ r.checkedAt < prevIssued.expires_at,
                !.wasConsumed = r.email = Watched /\ consumed # "" /\ consumed = r.otp]

NoLast == [req |-> NoReq, resp |-> NoResp, obs |-> NoObs]

\* the step writes no response
Silent == last' = NoLast

\* the response of request r leaves the server (the step has set the stores)
Answer(p, r, response) ==
    /\ pc' = [pc EXCEPT ![p] = "idle"]
    /\ req' = [req EXCEPT ![p] = NoReq]
    /\ last' = [req |-> r, resp |-> response, obs |-> Observe(r)]

\* the tables with a SERIAL id besides email_otps
Tables == {"users", "quiz_sessions", "activities"}

\* the overlapping generateContent invocations of one App component
Gens == {1, 2}

\* JavaScript null, as the JSON text of the value
Null == "null"

\* useState(...) of lines 15-19 of src/unnamed/part_003; a topic is the
\* sequence of its characters
InitialState == [topic |-> <<>>, content |-> Null, loading |-> FALSE, error |-> "",
                 activeTab |-> "quiz"]

\* an invocation of generateContent that has not started: the topic and tab
\* its closure captured, retries and delay of the callApiWithBackoff frame it
\* is in, the fetches made and the delays waited so far, and what
\* callApiWithBackoff returned or threw
NoGen == [pc |-> "idle", topic |-> <<>>, tab |-> "", retries |-> 0, delay |-> 0,
          attempts |-> 0, waits |-> <<>>, text |-> "", thrown |-> ""]

\* ------------------------------------------------------------- Init
Init ==
    /\ usePostgres = FALSE
    /\ dbInit = "pending"
    /\ now = 0
    /\ email_otps = {}
    /\ nextId = 1
    /\ emailOtps = <<>>
    /\ pc = [p \in Procs |-> "idle"]
    /\ req = [p \in Procs |-> NoReq]
    /\ last = NoLast
    /\ spent = {}
    /\ issued = None
    /\ prevIssued = None
    /\ consumed = ""
    /\ twin = NoResp
    /\ users = {}
    /\ verifiedEmails = {}
    /\ entitlements = {}
    /\ premium = {}
    /\ serial = [t \in Tables |-> 1]
    /\ quiz_sessions = {}
    /\ quizSessions = <<>>
    /\ activities = {}
    /\ app = InitialState
    /\ gen = [g \in Gens |-> NoGen]
    /\ fetched = <<>>

\* initDB resolves: every CREATE TABLE succeeded
InitDBSucceed ==
    /\ dbInit = "pending"
    /\ dbInit' = "done"
    /\ usePostgres' = TRUE
    /\ Silent
    /\ UNCHANGED <<now, store, pc, req, spent>>

\* initDB catches a connection or DDL error and falls back to memory
InitDBFail ==
    /\ dbInit = "pending"
    /\ dbInit' = "done"
    /\ usePostgres' = FALSE
    /\ Silent
    /\ UNCHANGED <<now, store, pc, req, spent>>

Tick ==
    /\ now < MaxTime
    /\ now' = now + 1
    /\ Silent
    /\ UNCHANGED <<usePostgres, dbInit, store, pc, req, spent>>

\* ------------------------------------------------------------- /api/send-otp
\* the row of email_otps / the element of memoryData.emailOtps.  t0 is the
\* Date.now() that expires_at was computed from (history, not stored data)
OtpRow(id, email, otp, expiresAt, createdAt, t0) ==
    [id |-> id, email |-> email, otp |-> otp, expires_at |-> expiresAt,
     created_at |-> createdAt, t0 |-> t0]

\* a send-otp memory branch that keeps the email's earlier OTP
MemoryStoreOtpKeepOld(list, email, otp, expiresAt, t) ==
    LET unexpired == Filter(list, LAMBDA o : o.expires_at > t)
    IN  Append(unexpired, OtpRow(t, email, otp, expiresAt, t, t))

\* memory branch of send-otp, lines 203-216
MemoryStoreOtp(list, email, otp, expiresAt, t) ==
    LET unexpired == Filter(list, LAMBDA o : o.expires_at > t)
        others == Filter(unexpired, LAMBDA o : o.email # email)
    IN  Append(others, OtpRow(t, email, otp, expiresAt, t, t))

\* send-otp requests that have not reached their INSERT yet
PendingInserts == Cardinality({q \in Procs : pc[q] \in {"s_purge", "s_delold", "s_insert"}})

\* lines 184-218: the handler up to its first await
SendOtpBegin(p, email, r) ==
    /\ ~InFlight(p)
    /\ usePostgres => nextId + PendingInserts <= MaxId
    /\ LET otp == generateOTP(r)
           expiresAt == now + OtpTtl
       IN  /\ req' = [req EXCEPT ![p] = [NoReq EXCEPT !.kind = "send",
                         !.email = email, !.otp = otp,
                         !.expiresAt = expiresAt, !.t0 = now,
                         !.stored = ~usePostgres]]
           /\ IF usePostgres
              THEN /\ pc' = [pc EXCEPT ![p] = "s_purge"]
                   /\ UNCHANGED emailOtps
              ELSE /\ pc' = [pc EXCEPT ![p] = "s_mail"]
                   /\ emailOtps' = MemoryStoreOtp(emailOtps, email, otp, expiresAt, now)
    /\ Silent
    /\ UNCHANGED <<usePostgres, dbInit, now, email_otps, nextId, spent>>

\* line 192: DELETE FROM email_otps WHERE expires_at < NOW()
SendOtpPurge(p) ==
    /\ pc[p] = "s_purge"
    /\ email_otps' = {o \in email_otps : ~(o.expires_at < now)}
    /\ pc' = [pc EXCEPT ![p] = "s_delold"]
    /\ Silent
    /\ UNCHANGED <<usePostgres, dbInit, now, nextId, emailOtps, req, spent>>

\* line 194: DELETE FROM email_otps WHERE email = $1
SendOtpDeleteOld(p) ==
    /\ pc[p] = "s_delold"
    /\ email_otps' = {o \in email_otps : o.email # req[p].email}
    /\ pc' = [pc EXCEPT ![p] = "s_insert"]
    /\ Silent
    /\ UNCHANGED <<usePostgres, dbInit, now, nextId, emailOtps, req, spent>>

\* lines 196-199: INSERT INTO email_otps (email, otp, expires_at); id is SERIAL,
\* created_at is DEFAULT CURRENT_TIMESTAMP
SendOtpInsert(p) ==
    /\ pc[p] = "s_insert"
    /\ email_otps' = email_otps \cup
          {OtpRow(nextId, req[p].email, req[p].otp, req[p].expiresAt, now, req[p].t0)}
    /\ nextId' = nextId + 1
    /\ req' = [req EXCEPT ![p].stored = TRUE]
    /\ pc' = [pc EXCEPT ![p] = "s_mail"]
    /\ Silent
    /\ UNCHANGED <<usePostgres, dbInit, now, emailOtps, spent>>

\* a send-otp that answers a failed delivery with an error
SendOtpResponseStrict(otp, emailSent) ==
    IF emailSent
    THEN [Json(200, TRUE, "", "OTP sent to your email!") EXCEPT !.emailSent = TRUE]
    ELSE Json(500, FALSE, "Failed to send OTP", "")

\* lines 221-226: the response after sendOTP resolved to emailSent
SendOtpResponse(otp, emailSent) ==
    [Json(200, TRUE, "",
          IF emailSent THEN "OTP sent to your email!"
          ELSE "Email failed. Check popup for OTP.")
     EXCEPT !.emailSent = emailSent,
            !.debugOtp = IF emailSent THEN "" ELSE otp]

\* lines 220-226: sendOTP resolves to true or false (it catches every error of
\* the mail service itself), then the response is written
SendOtpMail(p, emailSent) ==
    /\ pc[p] = "s_mail"
    /\ UNCHANGED <<usePostgres, dbInit, now, store, spent>>
    /\ Answer(p, req[p], SendOtpResponse(req[p].otp, emailSent))

\* lines 229-231: the answer of the catch block, otp a freshly generated code
SendOtpCatchResponse(otp) ==
    [Json(200, TRUE, "", "OTP generated (check server logs)") EXCEPT !.devOtp = otp]

\* lines 227-232: a query of send-otp rejects and the catch block answers
SendOtpQueryFails(p, r) ==
    /\ pc[p] \in {"s_purge", "s_delold", "s_insert"}
    /\ UNCHANGED <<usePostgres, dbInit, now, store, spent>>
    /\ Answer(p, req[p], SendOtpCatchResponse(generateOTP(r)))

\* ------------------------------------------------------------- /api/verify-otp
ErrRequired == "Email and OTP are required"
ErrSixDigits == "OTP must be 6 digits"
ErrNoOtp == "No OTP found. Please request a new one."
ErrExpired == "OTP expired. Please request a new one."
ErrWrong == "Wrong OTP. Please check and try again."
ErrFailed == "Failed to verify OTP"
MsgVerified == "Email verified successfully"

\* line 241: !email || !otp
Missing(email, otp) == email = "" \/ otp = ""

\* a length check that rejects only codes that are too short
MalformedTooShort(otp) == Len(otp) < 6

\* line 245: otp.length !== 6
Malformed(otp) == Len(otp) # 6

\* an answer that does not tell an expired record from a wrong code
NoMatchResponseCollapsed(anyOtp, t) ==
    IF anyOtp = {} THEN Json(400, FALSE, ErrNoOtp, "")
    ELSE Json(400, FALSE, ErrWrong, "")

\* lines 263-271 and 291-297: the answer when no live matching record was
\* found; anyOtp is the set holding the record looked at, empty if none
NoMatchResponse(anyOtp, t) ==
    IF anyOtp = {} THEN Json(400, FALSE, ErrNoOtp, "")
    ELSE IF (CHOOSE o \in anyOtp : TRUE).expires_at <= t
         THEN Json(400, FALSE, ErrExpired, "")
         ELSE Json(400, FALSE, ErrWrong, "")

\* a match that ignores expiry
LiveMatchNoExpiry(o, email, otp, t) == o.email = email /\ o.otp = otp

\* a match that still accepts a record at the instant it expires
LiveMatchInclusive(o, email, otp, t) == o.email = email /\ o.otp = otp /\ o.expires_at >= t

\* the WHERE clause of line 252 and the predicate of line 285
LiveMatch(o, email, otp, t) == o.email = email /\ o.otp = otp /\ o.expires_at > t

\* lines 284-286: the record the memory branch verifies against, 0 if none
MemoryFindLive(list, email, otp, t) == Find(list, LAMBDA o : LiveMatch(o, email, otp, t))

\* line 290
MemoryFindAny(list, email) == Find(list, LAMBDA o : o.email = email)

\* line 301
MemoryRemove(list, id) == Filter(list, LAMBDA o : o.id # id)

\* line 277
DeleteById(table, id) == {o \in table : o.id # id}

\* lines 237-247 and, in memory mode, lines 284-305
VerifyBegin(p, email, otp) ==
    /\ ~InFlight(p)
    /\ UNCHANGED <<usePostgres, dbInit, now, email_otps, nextId, spent>>
    /\ LET r0 == [NoReq EXCEPT !.kind = "verify", !.email = email, !.otp = otp,
                               !.checkedAt = now]
           found == MemoryFindLive(emailOtps, email, otp, now)
           any == MemoryFindAny(emailOtps, email)
       IN  IF Missing(email, otp)
           THEN /\ UNCHANGED emailOtps
                /\ Answer(p, r0, Json(400, FALSE, ErrRequired, ""))
           ELSE IF Malformed(otp)
           THEN /\ UNCHANGED emailOtps
                /\ Answer(p, r0, Json(400, FALSE, ErrSixDigits, ""))
           ELSE IF usePostgres
           THEN /\ pc' = [pc EXCEPT ![p] = "v_select"]
                /\ req' = [req EXCEPT ![p] = [r0 EXCEPT !.checkedAt = 0]]
                /\ Silent
                /\ UNCHANGED emailOtps
           ELSE IF found = 0
           THEN /\ UNCHANGED emailOtps
                /\ Answer(p, r0,
                     NoMatchResponse(IF any = 0 THEN {} ELSE {emailOtps[any]}, now))
           ELSE /\ emailOtps' = MemoryRemove(emailOtps, emailOtps[found].id)
                /\ Answer(p, [r0 EXCEPT !.rowId = emailOtps[found].id,
                                        !.rowT0 = emailOtps[found].t0],
                          Json(200, TRUE, "", MsgVerified))

\* lines 251-258, 276: SELECT id ... WHERE email = $1 AND otp = $2 AND
\* expires_at > NOW(); rows[0] is any matching row (the query has no ORDER BY)
VerifySelect(p) ==
    /\ pc[p] = "v_select"
    /\ LET rows == {o \in email_otps : LiveMatch(o, req[p].email, req[p].otp, now)}
       IN  IF rows = {}
           THEN /\ pc' = [pc EXCEPT ![p] = "v_any"]
                /\ req' = [req EXCEPT ![p].checkedAt = now]
           ELSE \E row \in rows :
                /\ pc' = [pc EXCEPT ![p] = "v_delete"]
                /\ req' = [req EXCEPT ![p].rowId = row.id, ![p].rowT0 = row.t0,
                                      ![p].checkedAt = now]
    /\ Silent
    /\ UNCHANGED <<usePostgres, dbInit, now, store, spent>>

\* a failed attempt that throws the email's code away
VerifyAnyConsumes(p) ==
    /\ pc[p] = "v_any"
    /\ email_otps' = {o \in email_otps : o.email # req[p].email}
    /\ UNCHANGED <<usePostgres, dbInit, now, nextId, emailOtps, spent>>
    /\ LET rows == {o \in email_otps : o.email = req[p].email}
           latest == {o \in rows : \A o2 \in rows : o2.created_at <= o.created_at}
           r == [req[p] EXCEPT !.checkedAt = now]
       IN  IF rows = {}
           THEN Answer(p, r, NoMatchResponse({}, now))
           ELSE \E o \in latest : Answer(p, r, NoMatchResponse({o}, now))

\* lines 260-272: SELECT ... WHERE email = $1 ORDER BY created_at DESC LIMIT 1,
\* then new Date() is read again to tell an expired code from a wrong one
VerifyAny(p) ==
    /\ pc[p] = "v_any"
    /\ UNCHANGED <<usePostgres, dbInit, now, store, spent>>
    /\ LET rows == {o \in email_otps : o.email = req[p].email}
           latest == {o \in rows : \A o2 \in rows : o2.created_at <= o.created_at}
           r == [req[p] EXCEPT !.checkedAt = now]
       IN  IF rows = {}
           THEN Answer(p, r, NoMatchResponse({}, now))
           ELSE \E o \in latest : Answer(p, r, NoMatchResponse({o}, now))

\* lines 276-278, 305: DELETE FROM email_otps WHERE id = $1, then success
VerifyDelete(p) ==
    /\ pc[p] = "v_delete"
    /\ email_otps' = DeleteById(email_otps, req[p].rowId)
    /\ spent' = spent \cup {req[p].rowId}
    /\ UNCHANGED <<usePostgres, dbInit, now, nextId, emailOtps>>
    /\ Answer(p, req[p], Json(200, TRUE, "", MsgVerified))

\* a failing DELETE that has removed the row all the same
VerifyQueryFailsConsumes(p) ==
    /\ pc[p] \in {"v_select", "v_any", "v_delete"}
    /\ email_otps' = DeleteById(email_otps, req[p].rowId)
    /\ UNCHANGED <<usePostgres, dbInit, now, nextId, emailOtps, spent>>
    /\ Answer(p, req[p], Json(500, FALSE, ErrFailed, ""))

\* lines 306-309: a query of verify-otp rejects
VerifyQueryFails(p) ==
    /\ pc[p] \in {"v_select", "v_any", "v_delete"}
    /\ UNCHANGED <<usePostgres, dbInit, now, store, spent>>
    /\ Answer(p, req[p], Json(500, FALSE, ErrFailed, ""))

\* ------------------------------------------------------------- /api/cleanup-otps
MsgCleaned(n) == "Cleaned up " \o ToString(n) \o " expired OTPs"

\* a cleanup whose memory branch also drops what expires within the next unit
CleanupBeginEager(p) ==
    /\ ~InFlight(p)
    /\ UNCHANGED <<usePostgres, dbInit, now, email_otps, nextId, spent>>
    /\ LET r0 == [NoReq EXCEPT !.kind = "cleanup"]
           kept == Filter(emailOtps, LAMBDA o : o.expires_at > now + 1)
       IN  IF usePostgres
           THEN /\ pc' = [pc EXCEPT ![p] = "c_delete"]
                /\ req' = [req EXCEPT ![p] = r0]
                /\ Silent
                /\ UNCHANGED emailOtps
           ELSE /\ emailOtps' = kept
                /\ Answer(p, r0, Json(200, TRUE, "", MsgCleaned(Len(emailOtps) - Len(kept))))

\* lines 1016 and, in memory mode, 1020-1024
CleanupBegin(p) ==
    /\ ~InFlight(p)
    /\ UNCHANGED <<usePostgres, dbInit, now, email_otps, nextId, spent>>
    /\ LET r0 == [NoReq EXCEPT !.kind = "cleanup"]
           kept == Filter(emailOtps, LAMBDA o : o.expires_at > now)
       IN  IF usePostgres
           THEN /\ pc' = [pc EXCEPT ![p] = "c_delete"]
                /\ req' = [req EXCEPT ![p] = r0]
                /\ Silent
                /\ UNCHANGED emailOtps
           ELSE /\ emailOtps' = kept
                /\ Answer(p, r0, Json(200, TRUE, "", MsgCleaned(Len(emailOtps) - Len(kept))))

\* lines 1017-1018: DELETE FROM email_otps WHERE expires_at < NOW() RETURNING *
CleanupDelete(p) ==
    /\ pc[p] = "c_delete"
    /\ UNCHANGED <<usePostgres, dbInit, now, nextId, emailOtps, spent>>
    /\ LET gone == {o \in email_otps : o.expires_at < now}
       IN  /\ email_otps' = email_otps \ gone
           /\ Answer(p, req[p], Json(200, TRUE, "", MsgCleaned(Cardinality(gone))))

\* lines 1026-1028: the DELETE rejects; the error text is the driver's
CleanupQueryFails(p) ==
    /\ pc[p] = "c_delete"
    /\ UNCHANGED <<usePostgres, dbInit, now, store, spent>>
    /\ Answer(p, req[p], Json(500, FALSE, "err.message", ""))

\* ------------------------------------------------------------- specifications
\* requests about one email are served once initDB has settled; they overlap
\* and the database may fail.  No history is kept.
Next ==
    \/ InitDBSucceed /\ UNCHANGED <<ghost, aside>>
    \/ InitDBFail /\ UNCHANGED <<ghost, aside>>
    \/ Tick /\ UNCHANGED <<ghost, aside>>
    \/ \E p \in Procs, e \in RaceEmails, r \in Draws :
          dbInit = "done" /\ SendOtpBegin(p, e, r) /\ UNCHANGED <<ghost, aside>>
    \/ \E p \in Procs, e \in RaceEmails, o \in OtpInputs :
          dbInit = "done" /\ VerifyBegin(p, e, o) /\ UNCHANGED <<ghost, aside>>
    \/ \E p \in Procs : dbInit = "done" /\ CleanupBegin(p) /\ UNCHANGED <<ghost, aside>>
    \/ \E p \in Procs : SendOtpPurge(p) /\ UNCHANGED <<ghost, aside>>
    \/ \E p \in Procs : SendOtpDeleteOld(p) /\ UNCHANGED <<ghost, aside>>
    \/ \E p \in Procs : SendOtpInsert(p) /\ UNCHANGED <<ghost, aside>>
    \/ \E p \in Procs, sent \in BOOLEAN : SendOtpMail(p, sent) /\ UNCHANGED <<ghost, aside>>
    \/ \E p \in Procs : VerifySelect(p) /\ UNCHANGED <<ghost, aside>>
    \/ \E p \in Procs : VerifyAny(p) /\ UNCHANGED <<ghost, aside>>
    \/ \E p \in Procs : VerifyDelete(p) /\ UNCHANGED <<ghost, aside>>
    \/ \E p \in Procs : CleanupDelete(p) /\ UNCHANGED <<ghost, aside>>
    \/ \E p \in Procs, r \in Draws : SendOtpQueryFails(p, r) /\ UNCHANGED <<ghost, aside>>
    \/ \E p \in Procs : VerifyQueryFails(p) /\ UNCHANGED <<ghost, aside>>
    \/ \E p \in Procs : CleanupQueryFails(p) /\ UNCHANGED <<ghost, aside>>

Spec == Init /\ [][Next]_vars

\* the replaced code of the history once the clock reads t: forgotten when
\* expired
Unexpired(code, t) == IF code.expires_at > t THEN code ELSE None

\* the history of a sequential run, brought up to date by the step: a
\* send-otp for Watched answered after storing its code issues that code, a
\* successful verify-otp for Watched consumes its code
History ==
    /\ UNCHANGED aside
    /\ LET r == last'.req
       IN
        IF r.kind = "send" /\ r.email = Watched
        THEN /\ issued' = [otp |-> r.otp, expires_at |-> r.expiresAt]
             /\ prevIssued' = issued
             /\ consumed' = ""
        ELSE IF r.kind = "verify" /\ r.email = Watched /\ last'.resp.success
        THEN /\ issued' = None
             /\ prevIssued' = None
             /\ consumed' = r.otp
        ELSE /\ issued' = issued
             /\ prevIssued' = Unexpired(prevIssued, now')
             /\ consumed' = consumed

SeqProc == CHOOSE p \in Procs : TRUE

\* one request at a time, about any email, over a database that answers
\* every query
SeqNext ==
    \/ InitDBSucceed /\ History
    \/ InitDBFail /\ History
    \/ Tick /\ History
    \/ \E e \in Emails, r \in Draws :
          dbInit = "done" /\ Quiet /\ SendOtpBegin(SeqProc, e, r) /\ History
    \/ \E e \in Emails, o \in OtpInputs :
          dbInit = "done" /\ Quiet /\ VerifyBegin(SeqProc, e, o) /\ History
    \/ dbInit = "done" /\ Quiet /\ CleanupBegin(SeqProc) /\ History
    \/ SendOtpPurge(SeqProc) /\ History
    \/ SendOtpDeleteOld(SeqProc) /\ History
    \/ SendOtpInsert(SeqProc) /\ History
    \/ \E sent \in BOOLEAN : SendOtpMail(SeqProc, sent) /\ History
    \/ VerifySelect(SeqProc) /\ History
    \/ VerifyAny(SeqProc) /\ History
    \/ VerifyDelete(SeqProc) /\ History
    \/ CleanupDelete(SeqProc) /\ History

SeqSpec == Init /\ [][SeqNext]_vars

\* ------------------------------------------------------------- properties
IsVerify == last.req.kind = "verify"
IsSend == last.req.kind = "send"
Verified == IsVerify /\ last.resp.success

\* the live records of an email, in the table and in the array
LiveRows(e) == {o \in email_otps : o.email = e /\ o.expires_at > now}
LiveItems(e) == {i \in 1..Len(emailOtps) : emailOtps[i].email = e /\ emailOtps[i].expires_at > now}

\* C1: of the verify-otp requests that run concurrently with the code of
\* the one live record of an email at most one is answered success: no
\* request is answered success for a record that another request was
\* already answered success for
C1_AtMostOneSuccess == Verified => ~last.obs.twice

\* C2: in a sequential run a verify-otp with the code that the last send-otp
\* of the email stored, made before its expiry, succeeds; and a verify-otp
\* with the code the email last verified with, no send-otp for the email
\* since, fails with "No OTP found" or "Wrong OTP"
C2_VerifiesOnce ==
    IsVerify =>
        /\ (last.obs.issuedOtp /\ last.obs.issuedLive) => last.resp.success
        /\ last.obs.wasConsumed =>
              ~last.resp.success /\ last.resp.error \in {ErrNoOtp, ErrWrong}

\* C3: every email has at most one stored record that is unexpired
C3_OneLiveRecord ==
    \A e \in Emails : Cardinality(LiveRows(e)) <= 1 /\ Cardinality(LiveItems(e)) <= 1

\* C4 as claimed: in a sequential run, after two send-otp for an email, a
\* verify-otp with the first code, made before that code's expiry, fails
\* with "Wrong OTP" or "No OTP found"
C4_FirstCodeFails ==
    (IsVerify /\ last.obs.prevOtp /\ last.obs.prevLive) =>
        ~last.resp.success /\ last.resp.error \in {ErrWrong, ErrNoOtp}

\* C4 as amended: the same, when the second code differs from the first
C4_ReplacedCodeFails ==
    (IsVerify /\ last.obs.prevOtp /\ last.obs.prevLive /\ ~last.obs.issuedOtp) =>
        ~last.resp.success /\ last.resp.error \in {ErrWrong, ErrNoOtp}

C4_Witness ==
    /\ IsVerify /\ last.obs.prevOtp /\ last.obs.prevLive /\ ~last.obs.issuedOtp
    /\ last.resp.error = ErrWrong

\* every stored record expires OtpTtl after the Date.now() of its request
ExpiryIsTtl ==
    /\ \A o \in email_otps : o.expires_at = o.t0 + OtpTtl
    /\ \A i \in 1..Len(emailOtps) : emailOtps[i].expires_at = emailOtps[i].t0 + OtpTtl

WellFormed == IsVerify /\ ~Missing(last.req.email, last.req.otp) /\ ~Malformed(last.req.otp)

C8_MalformedAny ==
    (IsVerify /\ Len(last.req.otp) # 6) =>
        /\ last.resp.error = ErrSixDigits
        /\ ~last.obs.changed

\* C8 as amended: a verify-otp whose code is not 6 characters long fails and
\* changes no store; it is answered "OTP must be 6 digits" when the code is
\* not empty and "Email and OTP are required" when it is
C8_MalformedNonEmpty ==
    (IsVerify /\ Len(last.req.otp) # 6) =>
        /\ ~last.resp.success /\ last.resp.status = 400
        /\ last.resp.error = IF last.req.otp = "" THEN ErrRequired ELSE ErrSixDigits
        /\ ~last.obs.changed

C8_Witness ==
    /\ IsVerify /\ last.req.otp = "1234567" /\ last.resp.error = ErrSixDigits
    /\ last.obs.rec = "other" /\ last.obs.era = "before"

\* C9: a send-otp is answered success only when the code it generated is in
\* the store; a request whose query failed is not answered success
C9_SuccessMeansStored == (IsSend /\ last.resp.success) => last.req.stored

\* a verify-otp with this code for this email would find a live record now
Verifiable(email, otp) ==
    IF usePostgres THEN \E o \in email_otps : LiveMatch(o, email, otp, now)
    ELSE MemoryFindLive(emailOtps, email, otp, now) # 0

\* C10: a send-otp that stored its code is answered success whether or not
\* the mail was delivered, emailSent telling which; and the code is then
\* verifiable until it expires, delivered or not
C10_DispatchFailure ==
    (IsSend /\ last.req.stored /\ last.resp.devOtp = "") =>
        /\ last.resp.success /\ last.resp.status = 200
        /\ now < last.req.expiresAt => Verifiable(last.req.email, last.req.otp)

C10_Witness ==
    /\ IsSend /\ last.req.stored /\ ~last.resp.emailSent /\ last.resp.success
    /\ Verifiable(last.req.email, last.req.otp)

\* C11: a send-otp response carries a code (debugOtp or devOtp) only when the
\* code was stored and its delivery was attempted and failed
C11_CodeOnlyAfterFailedDelivery ==
    (IsSend /\ (last.resp.debugOtp # "" \/ last.resp.devOtp # "")) =>
        last.req.stored /\ ~last.resp.emailSent

\* ------------------------------------------------- sequential runs with faults
\* requests about one email served one at a time, any query of which the
\* database may reject.  No history is kept.
FaultNext ==
    \/ InitDBSucceed /\ UNCHANGED <<ghost, aside>>
    \/ InitDBFail /\ UNCHANGED <<ghost, aside>>
    \/ Tick /\ UNCHANGED <<ghost, aside>>
    \/ \E e \in RaceEmails, r \in Draws :
          dbInit = "done" /\ Quiet /\ SendOtpBegin(SeqProc, e, r) /\ UNCHANGED <<ghost, aside>>
    \/ \E e \in RaceEmails, o \in OtpInputs :
          dbInit = "done" /\ Quiet /\ VerifyBegin(SeqProc, e, o) /\ UNCHANGED <<ghost, aside>>
    \/ dbInit = "done" /\ Quiet /\ CleanupBegin(SeqProc) /\ UNCHANGED <<ghost, aside>>
    \/ SendOtpPurge(SeqProc) /\ UNCHANGED <<ghost, aside>>
    \/ SendOtpDeleteOld(SeqProc) /\ UNCHANGED <<ghost, aside>>
    \/ SendOtpInsert(SeqProc) /\ UNCHANGED <<ghost, aside>>
    \/ \E sent \in BOOLEAN : SendOtpMail(SeqProc, sent) /\ UNCHANGED <<ghost, aside>>
    \/ VerifySelect(SeqProc) /\ UNCHANGED <<ghost, aside>>
    \/ VerifyAny(SeqProc) /\ UNCHANGED <<ghost, aside>>
    \/ VerifyDelete(SeqProc) /\ UNCHANGED <<ghost, aside>>
    \/ CleanupDelete(SeqProc) /\ UNCHANGED <<ghost, aside>>
    \/ \E r \in Draws : SendOtpQueryFails(SeqProc, r) /\ UNCHANGED <<ghost, aside>>
    \/ VerifyQueryFails(SeqProc) /\ UNCHANGED <<ghost, aside>>
    \/ CleanupQueryFails(SeqProc) /\ UNCHANGED <<ghost, aside>>

FaultSpec == Init /\ [][FaultNext]_vars

\* C12: a verify-otp one of whose queries is rejected is answered 500 'Failed
\* to verify OTP', is not reported verified, and has changed no store: a live
\* record found before the failure is still there
C12_StorageUnavailable ==
    (IsVerify /\ last.resp.status = 500) =>
        /\ last.resp.error = ErrFailed /\ ~last.resp.success
        /\ ~last.obs.changed
        /\ (last.req.rowId # 0 /\ now < last.req.rowT0 + OtpTtl) =>
              Verifiable(last.req.email, last.req.otp)

C12_Witness ==
    /\ IsVerify /\ last.resp.error = ErrFailed /\ last.req.rowId # 0
    /\ Verifiable(last.req.email, last.req.otp)

\* ------------------------------------------------- the two stores side by side
\* a handler run to completion at clock reading t, as a function of its store:
\* the branch of usePostgres over a table, the other branch over a list

\* lines 192-199 in sequence: purge, delete the email's rows, insert
PgSendOtp(table, id, email, otp, t) ==
    LET unexpired == {o \in table : ~(o.expires_at < t)}
        others == {o \in unexpired : o.email # email}
    IN  others \cup {OtpRow(id, email, otp, t + OtpTtl, t, t)}

\* lines 251-278 and 305 in sequence
PgVerifyOtp(table, email, otp, t) ==
    LET rows == {o \in table : LiveMatch(o, email, otp, t)}
        any == {o \in table : o.email = email}
        latest == {o \in any : \A o2 \in any : o2.created_at <= o.created_at}
    IN  IF rows = {}
        THEN [resp |-> NoMatchResponse(IF any = {} THEN {}
                                       ELSE {CHOOSE o \in latest : TRUE}, t),
              table |-> table]
        ELSE [resp |-> Json(200, TRUE, "", MsgVerified),
              table |-> DeleteById(table, (CHOOSE o \in rows : TRUE).id)]

\* lines 284-301 and 305
MemoryVerifyOtp(list, email, otp, t) ==
    LET found == MemoryFindLive(list, email, otp, t)
        any == MemoryFindAny(list, email)
    IN  IF found = 0
        THEN [resp |-> NoMatchResponse(IF any = 0 THEN {} ELSE {list[any]}, t),
              list |-> list]
        ELSE [resp |-> Json(200, TRUE, "", MsgVerified),
              list |-> MemoryRemove(list, list[found].id)]

\* the same POST /api/send-otp served by both branches
PairSendOtp(email, r, emailSent) ==
    /\ nextId <= MaxId
    /\ LET otp == generateOTP(r)
           rq == [NoReq EXCEPT !.kind = "send", !.email = email, !.otp = otp,
                               !.expiresAt = now + OtpTtl, !.t0 = now,
                               !.stored = TRUE]
       IN  /\ emailOtps' = MemoryStoreOtp(emailOtps, email, otp, now + OtpTtl, now)
           /\ email_otps' = PgSendOtp(email_otps, nextId, email, otp, now)
           /\ nextId' = nextId + 1
           /\ last' = [req |-> rq, resp |-> SendOtpResponse(otp, emailSent),
                       obs |-> NoObs]
           /\ twin' = SendOtpResponse(otp, emailSent)
    /\ UNCHANGED <<usePostgres, dbInit, now, pc, req, spent, ghost,
                   users, verifiedEmails, entitlements, premium, data, ui>>

\* the same POST /api/verify-otp served by both branches
PairVerifyOtp(email, otp) ==
    /\ LET rq == [NoReq EXCEPT !.kind = "verify", !.email = email, !.otp = otp,
                               !.checkedAt = now]
           early == IF Missing(email, otp) THEN Json(400, FALSE, ErrRequired, "")
                    ELSE Json(400, FALSE, ErrSixDigits, "")
           mem == MemoryVerifyOtp(emailOtps, email, otp, now)
           pg == PgVerifyOtp(email_otps, email, otp, now)
       IN  IF Missing(email, otp) \/ Malformed(otp)
           THEN /\ last' = [req |-> rq, resp |-> early, obs |-> NoObs]
                /\ twin' = early
                /\ UNCHANGED <<emailOtps, email_otps>>
           ELSE /\ last' = [req |-> rq, resp |-> mem.resp, obs |-> NoObs]
                /\ twin' = pg.resp
                /\ emailOtps' = mem.list
                /\ email_otps' = pg.table
    /\ UNCHANGED <<usePostgres, dbInit, now, nextId, pc, req, spent, ghost,
                   users, verifiedEmails, entitlements, premium, data, ui>>

\* the same POST /api/cleanup-otps served by both branches (lines 1016-1024)
PairCleanup ==
    /\ LET kept == Filter(emailOtps, LAMBDA o : o.expires_at > now)
           gone == {o \in email_otps : o.expires_at < now}
       IN  /\ emailOtps' = kept
           /\ email_otps' = email_otps \ gone
           /\ last' = [req |-> [NoReq EXCEPT !.kind = "cleanup"],
                       resp |-> Json(200, TRUE, "", MsgCleaned(Len(emailOtps) - Len(kept))),
                       obs |-> NoObs]
           /\ twin' = Json(200, TRUE, "", MsgCleaned(Cardinality(gone)))
    /\ UNCHANGED <<usePostgres, dbInit, now, nextId, pc, req, spent, ghost,
                   users, verifiedEmails, entitlements, premium, data, ui>>

PairTick == Tick /\ twin' = NoResp
                 /\ UNCHANGED <<ghost, users, verifiedEmails, entitlements, premium, data, ui>>

PairNext ==
    \/ PairTick
    \/ \E e \in RaceEmails, r \in Draws, sent \in BOOLEAN : PairSendOtp(e, r, sent)
    \/ \E e \in RaceEmails, o \in OtpInputs : PairVerifyOtp(e, o)
    \/ PairCleanup

PairSpec == Init /\ [][PairNext]_vars

\* the outcome of a response: success, or the kind of failure
Outcome(resp) == <<resp.success, resp.status, resp.error>>

\* C13: in a sequential run given to both branches with the same inputs and
\* clock readings, every request gets the same outcome from the in-memory
\* branch (last.resp) and from the Postgres branch (twin)
C13_SameOutcome == last.req.kind # "none" => Outcome(last.resp) = Outcome(twin)

\* ------------------------------------------------- purges
Codes == {generateOTP(r) : r \in Draws}
Items(list) == {list[i] : i \in 1..Len(list)}

\* the records that the step takes out of the store in use
Lost == IF usePostgres THEN email_otps \ email_otps'
        ELSE Items(emailOtps) \ Items(emailOtps')

\* the step of a sequential run is a purge of expired records: the DELETE of
\* cleanup-otps or its memory filter, the first DELETE of send-otp, or the
\* memory branch of send-otp (which also replaces the sender's own record)
CleanupStep ==
    \/ usePostgres /\ pc[SeqProc] = "c_delete"
    \/ ~usePostgres /\ last'.req.kind = "cleanup"
SendPurgeStep ==
    \/ usePostgres /\ pc[SeqProc] = "s_purge"
    \/ ~usePostgres /\ req[SeqProc].kind = "none" /\ req'[SeqProc].kind = "send"

\* the records the purge removed, and the emails it may have touched only
\* by purging
Purged ==
    IF CleanupStep THEN Lost
    ELSE IF SendPurgeStep THEN {o \in Lost : o.email # req'[SeqProc].email}
    ELSE {}
PurgeOnly ==
    IF CleanupStep THEN Emails
    ELSE IF SendPurgeStep THEN {e \in Emails : e # req'[SeqProc].email}
    ELSE {}

\* a verify-otp of email e with code c at clock reading t would find a live record
WouldVerifyAt(e, c, t) ==
    IF usePostgres THEN \E o \in email_otps : LiveMatch(o, e, c, t)
    ELSE MemoryFindLive(emailOtps, e, c, t) # 0

ActingEmail ==
    IF now' # now THEN ""
    ELSE IF req'[SeqProc].kind \in {"send", "verify"} THEN req'[SeqProc].email
    ELSE IF last'.req.kind \in {"send", "verify"} THEN last'.req.email
    ELSE ""

LiveRecordsOf(e) == {o \in RecordsOf(e) : o.expires_at > now}

\* C15: no step of a send-otp or verify-otp for one email changes the live
\* records stored for another email (so a later verify-otp of that other
\* email is answered as it would have been)
C15_OtherEmailUntouched ==
    [][\A b \in Emails :
          ActingEmail \notin {"", b} => LiveRecordsOf(b)' = LiveRecordsOf(b)]_vars

\* ------------------------------------------------- payment attestation
\* spec.md 4.2, verifyPayment: the repository's sources under src/ hold no
\* payment handler, this part follows the specification
MaxEntitlements == 2

UserIds == {"u1", "u2"}
OrderIds == {"order_1", "order_1|pay"}
PaymentIds == {"pay_1", "pay|pay_1"}
\* PAYMENT_SECRET of the environment, "" when it is not set
Secrets == {"", "whsec"}

\* hex HMAC-SHA256 of msg under secret: distinct (secret, msg) pairs give
\* distinct digests, and no digest is a string anyone writes without the secret
HmacSha256Hex(secret, msg) == "hmac(" \o secret \o ";" \o msg \o ")"

Signatures ==
    {HmacSha256Hex(s, o \o "|" \o p) : s \in Secrets, o \in OrderIds, p \in PaymentIds}
        \cup {"", "deadbeef"}

ErrNotConfigured == "NotConfigured"
ErrSignatureMismatch == "SignatureMismatch"

\* a comparison that covers the payment id only
SignatureMatchesPaymentOnly(secret, orderId, paymentId, signature) ==
    signature = HmacSha256Hex(secret, "|" \o paymentId)

\* expected = HMAC-SHA256(secret, orderId + "|" + paymentId), compared exactly
SignatureMatches(secret, orderId, paymentId, signature) ==
    signature = HmacSha256Hex(secret, orderId \o "|" \o paymentId)

Entitlement(userId, paymentId, orderId) ==
    [userId |-> userId, paymentId |-> paymentId, orderId |-> orderId,
     status |-> "active", createdAt |-> now]

\* an attestation that grants the entitlement and leaves the user as it was
VerifyPaymentNoFlag(secret, orderId, paymentId, signature, userId) ==
    /\ Cardinality(entitlements) < MaxEntitlements
    /\ LET rq == [kind |-> "pay", secret |-> secret, orderId |-> orderId,
                  paymentId |-> paymentId, signature |-> signature,
                  userId |-> userId]
       IN  IF secret = ""
           THEN /\ last' = [req |-> rq, resp |-> Json(500, FALSE, ErrNotConfigured, ""),
                            obs |-> NoObs]
                /\ UNCHANGED <<entitlements, premium>>
           ELSE IF SignatureMatches(secret, orderId, paymentId, signature)
           THEN /\ entitlements' = entitlements \cup
                                     {Entitlement(userId, paymentId, orderId)}
                /\ UNCHANGED premium
                /\ last' = [req |-> rq, resp |-> Json(200, TRUE, "", "active"),
                            obs |-> NoObs]
           ELSE /\ last' = [req |-> rq,
                            resp |-> Json(400, FALSE, ErrSignatureMismatch, ""),
                            obs |-> NoObs]
                /\ UNCHANGED <<entitlements, premium>>
    /\ UNCHANGED <<usePostgres, dbInit, now, store, pc, req, spent, ghost,
                   twin, users, verifiedEmails, data, ui>>

\* verifyPayment(orderId, paymentId, signature, userId); the two writes of a
\* success are one transaction
VerifyPayment(secret, orderId, paymentId, signature, userId) ==
    /\ Cardinality(entitlements) < MaxEntitlements
    /\ LET rq == [kind |-> "pay", secret |-> secret, orderId |-> orderId,
                  paymentId |-> paymentId, signature |-> signature,
                  userId |-> userId]
       IN  IF secret = ""
           THEN /\ last' = [req |-> rq, resp |-> Json(500, FALSE, ErrNotConfigured, ""),
                            obs |-> NoObs]
                /\ UNCHANGED <<entitlements, premium>>
           ELSE IF SignatureMatches(secret, orderId, paymentId, signature)
           THEN /\ entitlements' = entitlements \cup
                                     {Entitlement(userId, paymentId, orderId)}
                /\ premium' = premium \cup {userId}
                /\ last' = [req |-> rq, resp |-> Json(200, TRUE, "", "active"),
                            obs |-> NoObs]
           ELSE /\ last' = [req |-> rq,
                            resp |-> Json(400, FALSE, ErrSignatureMismatch, ""),
                            obs |-> NoObs]
                /\ UNCHANGED <<entitlements, premium>>
    /\ UNCHANGED <<usePostgres, dbInit, now, store, pc, req, spent, ghost,
                   twin, users, verifiedEmails, data, ui>>

PayNext ==
    \E s \in Secrets, o \in OrderIds, p \in PaymentIds, sig \in Signatures,
       u \in UserIds : VerifyPayment(s, o, p, sig, u)

PaySpec == Init /\ [][PayNext]_vars

IsPay == last.req.kind = "pay"

\* C16: with a secret configured, verifyPayment succeeds iff the signature is
\* the hex HMAC-SHA256 of orderId + "|" + paymentId under that secret and is
\* answered SignatureMismatch otherwise; after a success, the same request
\* with another signature, another orderId or another paymentId is a mismatch
C16_SignatureDecides ==
    (IsPay /\ last.req.secret # "") =>
        LET q == last.req
            good == q.signature =
                      HmacSha256Hex(q.secret, q.orderId \o "|" \o q.paymentId)
        IN  /\ last.resp.success <=> good
            /\ ~good <=> last.resp.error = ErrSignatureMismatch
            /\ last.resp.success =>
                  /\ \A sig \in Signatures \ {q.signature} :
                        ~SignatureMatches(q.secret, q.orderId, q.paymentId, sig)
                  /\ \A o \in OrderIds \ {q.orderId} :
                        ~SignatureMatches(q.secret, o, q.paymentId, q.signature)
                  /\ \A p \in PaymentIds \ {q.paymentId} :
                        ~SignatureMatches(q.secret, q.orderId, p, q.signature)

C16_Witness ==
    /\ IsPay /\ last.resp.success
    /\ last.req.orderId = "order_1|pay" /\ last.req.paymentId = "pay_1"

\* C17: a user has an active entitlement iff the user's premium flag is set;
\* both are there only after a verifyPayment whose signature matched, and a
\* verifyPayment that fails leaves both as they were
EntitlementIffPremium ==
    \A u \in UserIds :
        (\E e \in entitlements : e.userId = u /\ e.status = "active") <=> u \in premium

C17_EntitlementIffPremium ==
    /\ []EntitlementIffPremium
    /\ [][LET q == last'.req
              matched == /\ q.kind = "pay" /\ q.secret # "" /\ last'.resp.success
                         /\ q.signature = HmacSha256Hex(q.secret,
                                              q.orderId \o "|" \o q.paymentId)
          IN  /\ (entitlements' # entitlements \/ premium' # premium) => matched
              /\ (q.kind = "pay" /\ ~last'.resp.success) =>
                    UNCHANGED <<entitlements, premium>>]_vars

C17_Witness == IsPay /\ last.resp.success /\ last.req.userId \in premium

\* ------------------------------------------------- requests during start-up
\* line 121 calls initDB() without awaiting it and line 1031 listens at once:
\* requests about one email, served one at a time, also while initDB is pending
BootNext ==
    \/ InitDBSucceed /\ History
    \/ InitDBFail /\ History
    \/ Tick /\ History
    \/ \E e \in RaceEmails, r \in Draws : Quiet /\ SendOtpBegin(SeqProc, e, r) /\ History
    \/ \E e \in RaceEmails, o \in OtpInputs : Quiet /\ VerifyBegin(SeqProc, e, o) /\ History
    \/ Quiet /\ CleanupBegin(SeqProc) /\ History
    \/ SendOtpPurge(SeqProc) /\ History
    \/ SendOtpDeleteOld(SeqProc) /\ History
    \/ SendOtpInsert(SeqProc) /\ History
    \/ \E sent \in BOOLEAN : SendOtpMail(SeqProc, sent) /\ History
    \/ VerifySelect(SeqProc) /\ History
    \/ VerifyAny(SeqProc) /\ History
    \/ VerifyDelete(SeqProc) /\ History
    \/ CleanupDelete(SeqProc) /\ History

BootSpec == Init /\ [][BootNext]_vars

\* C18: a verify-otp with the code that send-otp last stored for the email,
\* not consumed, not replaced and not expired, succeeds, whenever initDB
\* settles
C18_StaysVerifiable ==
    (IsVerify /\ last.obs.issuedOtp /\ last.obs.issuedLive) => last.resp.success

\* ------------------------------------------------- failed attempts
\* the step of a sequential run belongs to a verify-otp request
VerifyStep ==
    now' = now /\ (req[SeqProc].kind = "verify" \/ last'.req.kind = "verify")

\* C19: the only step of a verify-otp that changes a store is the one that
\* answers success: a verify-otp that fails (missing field, malformed, wrong,
\* expired or unknown code) leaves every stored record, live ones included
C19_FailedVerifyKeepsStore ==
    [][(VerifyStep /\ (email_otps' # email_otps \/ emailOtps' # emailOtps)) =>
          last'.req.kind = "verify" /\ last'.resp.success]_vars

C19_Witness ==
    /\ IsVerify /\ last.resp.error = ErrWrong
    /\ \E c \in Codes : c # last.req.otp /\ WouldVerifyAt(last.req.email, c, now)

\* ------------------------------------------------------------- /api/register
Usernames == {"amy", "bob", "al"}
Passwords == {"secret1", "12345"}

\* lines 328 and 342: the users with this username or this email
ExistingUser(username, email) ==
    {u \in users : u.username = username \/ u.email = email}

\* lines 334-337 and 345-353: the stored user.  The id is SERIAL in Postgres
\* mode and Date.now().toString() in memory mode
User(username, email, password, emailVerified) ==
    [id |-> IF usePostgres THEN serial["users"] ELSE now,
     username |-> username, email |-> email, password |-> password,
     email_verified |-> emailVerified, created_at |-> now]

\* lines 312-369, a request served without another one in between; users is
\* the table users in Postgres mode and memoryData.users in memory mode
Register(username, email, password, emailVerified) ==
    /\ Quiet
    /\ usePostgres => serial["users"] <= MaxId
    /\ LET rq == [kind |-> "register", username |-> username, email |-> email,
                  emailVerified |-> emailVerified]
           user == User(username, email, password, emailVerified)
           fail(error) == /\ last' = [req |-> rq, resp |-> Json(400, FALSE, error, ""),
                                      obs |-> NoObs]
                          /\ UNCHANGED users
       IN  IF username = "" \/ email = "" \/ password = ""
           THEN fail("Missing required fields")
           ELSE IF Len(username) < 3
           THEN fail("Username must be at least 3 characters")
           ELSE IF Len(password) < 6
           THEN fail("Password must be at least 6 characters")
           ELSE IF ExistingUser(username, email) # {}
           THEN fail("Username or email already exists")
           ELSE /\ users' = {u \in users : u.id # user.id} \cup {user}
                /\ last' = [req |-> rq,
                            resp |-> Json(200, TRUE, "", "Registration successful!"),
                            obs |-> NoObs]
    /\ serial' = IF usePostgres /\ users' # users
                 THEN [serial EXCEPT !["users"] = @ + 1] ELSE serial
    /\ UNCHANGED <<usePostgres, dbInit, now, store, pc, req, spent, ghost,
                   twin, verifiedEmails, entitlements, premium,
                   quiz_sessions, quizSessions, activities, ui>>

\* history: the emails a verify-otp was answered success for
Verifications ==
    /\ verifiedEmails' = IF last'.req.kind = "verify" /\ last'.resp.success
                         THEN verifiedEmails \cup {last'.req.email}
                         ELSE verifiedEmails
    /\ UNCHANGED <<ghost, twin, users, entitlements, premium, data, ui>>

\* sign-up of one email: its OTP requests and its registrations, one at a time
RegNext ==
    \/ InitDBSucceed /\ Verifications
    \/ InitDBFail /\ Verifications
    \/ Tick /\ Verifications
    \/ \E e \in RaceEmails, r \in Draws :
          dbInit = "done" /\ Quiet /\ SendOtpBegin(SeqProc, e, r) /\ Verifications
    \/ \E e \in RaceEmails, o \in OtpInputs :
          dbInit = "done" /\ Quiet /\ VerifyBegin(SeqProc, e, o) /\ Verifications
    \/ SendOtpPurge(SeqProc) /\ Verifications
    \/ SendOtpDeleteOld(SeqProc) /\ Verifications
    \/ SendOtpInsert(SeqProc) /\ Verifications
    \/ \E sent \in BOOLEAN : SendOtpMail(SeqProc, sent) /\ Verifications
    \/ VerifySelect(SeqProc) /\ Verifications
    \/ VerifyAny(SeqProc) /\ Verifications
    \/ VerifyDelete(SeqProc) /\ Verifications
    \/ \E n \in Usernames, e \in RaceEmails, pw \in Passwords, v \in BOOLEAN :
          dbInit = "done" /\ Register(n, e, pw, v)

RegSpec == Init /\ [][RegNext]_vars

\* C20: every stored user with email_verified = true has an email that a
\* verify-otp was answered success for before the user was stored
C20_VerifiedMeansVerified ==
    \A u \in users : u.email_verified => u.email \in verifiedEmails

\* ------------------------------------------------------------- /api/register, overlapping
\* err.message of the INSERT that violates users_username_key or users_email_key
ErrDuplicateKey == "duplicate key value violates unique constraint"
ErrExists == "Username or email already exists"

\* register requests that have passed validation and not reached their INSERT
PendingUsers == Cardinality({q \in Procs : pc[q] \in {"reg_select", "reg_insert"}})

\* lines 377 and 388: the users a login with these credentials finds
LoginFinds(table, username, password) ==
    {u \in table : u.username = username /\ u.password = password}

\* what is true of register request r at the step that answers it: whether
\* its username or email was taken, and what the step does to the user store
RegObserve(r) ==
    [taken |-> ExistingUser(r.username, r.email) # {},
     changed |-> users' # users,
     added |-> Cardinality(users') - Cardinality(users),
     kept |-> \A u \in users : /\ u \in users'
                              /\ LoginFinds(users', u.username, u.password) # {}]

RegAnswer(p, r, response) ==
    /\ pc' = [pc EXCEPT ![p] = "idle"]
    /\ req' = [req EXCEPT ![p] = NoReq]
    /\ last' = [req |-> r, resp |-> response, obs |-> RegObserve(r)]

\* lines 312-329 and 343-362: the handler up to its first await, which in
\* memory mode is the whole handler
RegisterBegin(p, username, email, password, emailVerified) ==
    /\ ~InFlight(p)
    /\ usePostgres => serial["users"] + PendingUsers <= MaxId
    /\ LET r == [kind |-> "register", username |-> username, email |-> email,
                 password |-> password, emailVerified |-> emailVerified]
           user == User(username, email, password, emailVerified)
           fail(error) == /\ UNCHANGED users
                          /\ RegAnswer(p, r, Json(400, FALSE, error, ""))
       IN  IF username = "" \/ email = "" \/ password = ""
           THEN fail("Missing required fields")
           ELSE IF Len(username) < 3
           THEN fail("Username must be at least 3 characters")
           ELSE IF Len(password) < 6
           THEN fail("Password must be at least 6 characters")
           ELSE IF usePostgres
           THEN /\ pc' = [pc EXCEPT ![p] = "reg_select"]
                /\ req' = [req EXCEPT ![p] = r]
                /\ Silent
                /\ UNCHANGED users
           ELSE IF ExistingUser(username, email) # {}
           THEN fail(ErrExists)
           ELSE /\ users' = {u \in users : u.id # user.id} \cup {user}
                /\ RegAnswer(p, r, Json(200, TRUE, "", "Registration successful!"))
    /\ UNCHANGED <<usePostgres, dbInit, now, store, spent, ghost, twin,
                   verifiedEmails, entitlements, premium, data, ui>>

\* lines 332-335: SELECT id FROM users WHERE username = $1 OR email = $2
RegisterSelect(p) ==
    /\ pc[p] = "reg_select"
    /\ UNCHANGED <<usePostgres, dbInit, now, store, spent, ghost, aside>>
    /\ IF ExistingUser(req[p].username, req[p].email) # {}
       THEN RegAnswer(p, req[p], Json(400, FALSE, ErrExists, ""))
       ELSE /\ pc' = [pc EXCEPT ![p] = "reg_insert"]
            /\ Silent
            /\ UNCHANGED req

\* an INSERT into a table users that has no UNIQUE column
RegisterInsertUnchecked(p) ==
    /\ pc[p] = "reg_insert"
    /\ serial' = [serial EXCEPT !["users"] = @ + 1]
    /\ LET r == req[p]
       IN  /\ users' = users \cup {User(r.username, r.email, r.password, r.emailVerified)}
           /\ RegAnswer(p, r, Json(200, TRUE, "", "Registration successful!"))
    /\ UNCHANGED <<usePostgres, dbInit, now, store, spent, ghost, twin,
                   verifiedEmails, entitlements, premium,
                   quiz_sessions, quizSessions, activities, ui>>

\* lines 337-342 and 363-368: INSERT INTO users ... RETURNING, under the
\* UNIQUE constraints on username and on email of lines 61-70; the id is
\* drawn from the sequence before the constraints are checked.  A violation
\* rejects the query and the catch block answers 500 with err.message
RegisterInsert(p) ==
    /\ pc[p] = "reg_insert"
    /\ serial' = [serial EXCEPT !["users"] = @ + 1]
    /\ LET r == req[p]
       IN  IF ExistingUser(r.username, r.email) # {}
           THEN /\ UNCHANGED users
                /\ RegAnswer(p, r, Json(500, FALSE, ErrDuplicateKey, ""))
           ELSE /\ users' = users \cup {User(r.username, r.email, r.password, r.emailVerified)}
                /\ RegAnswer(p, r, Json(200, TRUE, "", "Registration successful!"))
    /\ UNCHANGED <<usePostgres, dbInit, now, store, spent, ghost, twin,
                   verifiedEmails, entitlements, premium,
                   quiz_sessions, quizSessions, activities, ui>>

\* register requests of any users, overlapping freely
UsersNext ==
    \/ InitDBSucceed /\ UNCHANGED <<ghost, aside>>
    \/ InitDBFail /\ UNCHANGED <<ghost, aside>>
    \/ Tick /\ UNCHANGED <<ghost, aside>>
    \/ \E p \in Procs, n \in Usernames, e \in Emails, pw \in Passwords :
          dbInit = "done" /\ RegisterBegin(p, n, e, pw, FALSE)
    \/ \E p \in Procs : RegisterSelect(p)
    \/ \E p \in Procs : RegisterInsert(p)

UsersSpec == Init /\ [][UsersNext]_vars

IsRegister == last.req.kind = "register"

\* C21: no two stored users share a username or an email, and a register
\* request answered while its username or email is taken fails and leaves the
\* user store unchanged
C21_UniqueUsers ==
    /\ \A u, v \in users : (u.username = v.username \/ u.email = v.email) => u = v
    /\ (IsRegister /\ last.obs.taken) => (~last.resp.success /\ ~last.obs.changed)

\* two overlapping requests for one username in Postgres mode: the second
\* INSERT is rejected by the constraint
C21_Witness ==
    /\ IsRegister /\ usePostgres
    /\ last.resp.error = ErrDuplicateKey
    /\ \E u \in users : u.username = last.req.username

\* C22: a successful register request in memory mode adds exactly one user
\* and every user stored before it is still stored and can still log in
C22_RegisterKeepsUsers ==
    (IsRegister /\ last.resp.success /\ ~usePostgres) =>
        (last.obs.added = 1 /\ last.obs.kept)

\* ------------------------------------------------------------- quiz results, activities
\* a JSON number or string as express.json() parses it: its type and its text
JsonNumber(n) == [type |-> "number", text |-> ToString(n)]
JsonString(str) == [type |-> "string", text |-> str]

\* the userId fields of the bodies of /api/quiz-result and /api/activity
UserIdInputs == {JsonNumber(1), JsonString("1")}
\* the :id and :userId segments of the request paths, always strings
IdParams == {"1", "x"}

\* a !== b of lines 548-549 with b a string: equal type and equal value
StrictEquals(v, str) == v.type = "string" /\ v.text = str

\* the text is a decimal integer, as the INTEGER columns take their parameter
IsInteger(text) == \E n \in 0..9 : ToString(n) = text
\* Postgres reads the text parameter $1 as an INTEGER
PgInteger(text) == CHOOSE n \in 0..9 : ToString(n) = text

\* user_id INTEGER REFERENCES users(id) of lines 87 and 98, in Postgres mode
UserExists(id) == usePostgres /\ \E u \in users : u.id = id

QuizRow(id, userId) ==
    [id |-> id, user_id |-> userId, topic |-> "math", total_questions |-> 10,
     correct_answers |-> 7, score_percentage |-> 70, created_at |-> now]

\* the response of a request served without another one in between
Served(r, response, observed) ==
    last' = [req |-> r, resp |-> response, obs |-> observed]

\* lines 402-431: POST /api/quiz-result
PostQuizResult(userId) ==
    /\ Quiet
    /\ LET r == [kind |-> "quiz-result", userId |-> userId]
           ok == Json(200, TRUE, "", "")
           fail == Json(500, FALSE, "Failed to save quiz result", "")
       IN  IF usePostgres
           THEN /\ serial["quiz_sessions"] <= MaxId
                /\ UNCHANGED quizSessions
                /\ IF IsInteger(userId.text) /\ UserExists(PgInteger(userId.text))
                   THEN /\ quiz_sessions' = quiz_sessions \cup
                              {QuizRow(serial["quiz_sessions"], PgInteger(userId.text))}
                        /\ serial' = [serial EXCEPT !["quiz_sessions"] = @ + 1]
                        /\ Served(r, ok, [added |-> 1])
                   ELSE /\ UNCHANGED <<quiz_sessions, serial>>
                        /\ Served(r, fail, [added |-> 0])
           ELSE /\ Len(quizSessions) < MaxRows
                /\ quizSessions' = Append(quizSessions, QuizRow(ToString(now), userId))
                /\ UNCHANGED <<quiz_sessions, serial>>
                /\ Served(r, ok, [added |-> 1])
    /\ UNCHANGED <<usePostgres, dbInit, now, store, pc, req, spent, ghost, twin, users,
                   verifiedEmails, entitlements, premium, activities, ui>>

\* ORDER BY created_at DESC LIMIT 10: the newest HistoryLimit rows
Newest(rows) ==
    {S \in SUBSET rows :
        /\ Cardinality(S) = IF Cardinality(rows) < HistoryLimit
                            THEN Cardinality(rows) ELSE HistoryLimit
        /\ \A a \in S, b \in rows \ S : a.created_at >= b.created_at}

\* the quiz sessions of the user in the store of the mode in use
SessionsOf(userId) ==
    IF usePostgres
    THEN {q \in quiz_sessions : IsInteger(userId) /\ q.user_id = PgInteger(userId)}
    ELSE {quizSessions[i] : i \in {j \in 1..Len(quizSessions) :
                                      quizSessions[j].user_id.text = userId}}

\* lines 433-444: GET /api/quiz-history/:userId.  The handler queries the
\* pool whatever the mode.  In memory mode the database is the one initDB
\* failed on: the query is rejected, or it answers from a table quiz_sessions
\* that no request of this server has written
GetQuizHistory(userId, reachable) ==
    /\ Quiet
    /\ LET r == [kind |-> "quiz-history", userId |-> userId]
           fail == Json(500, FALSE, "Failed to get quiz history", "")
           stored == [stored |-> SessionsOf(userId)]
       IN  IF (usePostgres \/ reachable) /\ IsInteger(userId)
           THEN \E rows \in Newest({q \in quiz_sessions : q.user_id = PgInteger(userId)}) :
                   Served(r, [status |-> 200, success |-> TRUE, error |-> "",
                              quizzes |-> rows], stored)
           ELSE Served(r, fail, stored)
    /\ UNCHANGED <<usePostgres, dbInit, now, store, pc, req, spent, ghost, aside>>

\* lines 446-457: POST /api/activity.  The handler queries the pool whatever
\* the mode; in memory mode the INSERT is rejected, by the connection or by
\* the foreign key (the table users holds no row then)
PostActivity(userId) ==
    /\ Quiet
    /\ serial["activities"] <= MaxId
    /\ LET r == [kind |-> "activity", userId |-> userId]
       IN  IF IsInteger(userId.text) /\ UserExists(PgInteger(userId.text))
           THEN /\ activities' = activities \cup
                      {[id |-> serial["activities"], user_id |-> PgInteger(userId.text),
                        action |-> "login", timestamp |-> now]}
                /\ serial' = [serial EXCEPT !["activities"] = @ + 1]
                /\ Served(r, Json(200, TRUE, "", ""), [added |-> 1])
           ELSE /\ UNCHANGED <<activities, serial>>
                /\ Served(r, Json(500, FALSE, "Failed to log activity", ""), [added |-> 0])
    /\ UNCHANGED <<usePostgres, dbInit, now, store, pc, req, spent, ghost, twin, users,
                   verifiedEmails, entitlements, premium, quiz_sessions, quizSessions, ui>>

\* lines 539-555: DELETE /api/users/:id.  memoryData.activities is never
\* written by this server (line 446 on), so its filter of line 548 keeps []
DeleteUser(id) ==
    /\ Quiet
    /\ LET r == [kind |-> "delete-user", id |-> id]
       IN  IF usePostgres
           THEN IF IsInteger(id)
                THEN /\ activities' = {a \in activities : a.user_id # PgInteger(id)}
                     /\ quiz_sessions' = {q \in quiz_sessions : q.user_id # PgInteger(id)}
                     /\ users' = {u \in users : u.id # PgInteger(id)}
                     /\ UNCHANGED quizSessions
                     /\ Served(r, Json(200, TRUE, "", ""), NoObs)
                ELSE /\ UNCHANGED <<activities, quiz_sessions, users, quizSessions>>
                     /\ Served(r, Json(500, FALSE, "Failed to delete user", ""), NoObs)
           ELSE /\ users' = {u \in users : ToString(u.id) # id}
                /\ quizSessions' = Filter(quizSessions, LAMBDA q : ~StrictEquals(q.user_id, id))
                /\ UNCHANGED <<activities, quiz_sessions>>
                /\ Served(r, Json(200, TRUE, "", ""), NoObs)
    /\ UNCHANGED <<usePostgres, dbInit, now, store, pc, req, spent, ghost, twin,
                   verifiedEmails, entitlements, premium, serial, ui>>

\* users, their quiz results and activities, one request at a time
DataNext ==
    \/ InitDBSucceed /\ UNCHANGED <<ghost, aside>>
    \/ InitDBFail /\ UNCHANGED <<ghost, aside>>
    \/ Tick /\ UNCHANGED <<ghost, aside>>
    \/ \E n \in {"amy", "bob"} :
          dbInit = "done" /\ Register(n, Watched, "secret1", FALSE)
    \/ \E v \in UserIdInputs : dbInit = "done" /\ PostQuizResult(v)
    \/ \E id \in IdParams, reachable \in BOOLEAN :
          dbInit = "done" /\ GetQuizHistory(id, reachable)
    \/ \E v \in UserIdInputs : dbInit = "done" /\ PostActivity(v)
    \/ \E id \in IdParams : dbInit = "done" /\ DeleteUser(id)

DataSpec == Init /\ [][DataNext]_vars

\* the stored quiz sessions and activities whose user_id has the value id
RowsOfUser(id) ==
    {q \in quiz_sessions : IsInteger(id) /\ q.user_id = PgInteger(id)}
    \cup {a \in activities : IsInteger(id) /\ a.user_id = PgInteger(id)}
    \cup {quizSessions[i] : i \in {j \in 1..Len(quizSessions) :
                                      quizSessions[j].user_id.text = id}}

\* C23: when DELETE /api/users/:id has answered success, no stored quiz
\* session and no stored activity has a user_id with the value of id, be it
\* saved as a number or as a string
C23_DeleteLeavesNoRows ==
    (last.req.kind = "delete-user" /\ last.resp.success) => RowsOfUser(last.req.id) = {}

\* C24: GET /api/quiz-history/:userId returns every quiz result that was
\* accepted for the user and is stored in the mode in use, and an accepted
\* quiz result or activity has been added to a store
C24_AcceptedIsReturned ==
    /\ last.req.kind = "quiz-history" =>
          \A q \in last.obs.stored : last.resp.success /\ q \in last.resp.quizzes
    /\ (last.req.kind \in {"quiz-result", "activity"} /\ last.resp.success) =>
          last.obs.added = 1

\* ------------------------------------------------------------- App: generateContent
\* retries = 3 and delay = 1000 of line 38 of src/unnamed/part_003
Retries == 3
Delay == 1000

\* what the user types into the topic field
Topics == {<<>>, <<" ">>, <<"c">>, <<" ", "c">>}
\* the tabs of GeneratorForm.jsx, lines 32-54
Tabs == {"quiz", "flashcards", "mindmap"}

\* String.prototype.trim
RECURSIVE TrimStart(_)
TrimStart(t) == IF t # <<>> /\ Head(t) = " " THEN TrimStart(Tail(t)) ELSE t
RECURSIVE TrimEnd(_)
TrimEnd(t) ==
    IF t # <<>> /\ t[Len(t)] = " " THEN TrimEnd(SubSeq(t, 1, Len(t) - 1)) ELSE t
Trim(t) == TrimEnd(TrimStart(t))

\* the texts of candidates[0].content.parts[0]: the array that responseSchema
\* asks for, complete or cut off
ApiTexts == {"[{\"question\":\"q\"}]", "[{\"question\":"}

\* JSON.parse: the value of a JSON text, or a SyntaxError
JsonParse(text) ==
    IF text \in {"[{\"question\":\"q\"}]", "null"}
    THEN [threw |-> FALSE, value |-> text]
    ELSE [threw |-> TRUE, value |-> "SyntaxError"]

ErrNetwork == "TypeError: Failed to fetch"
ErrStatus == "API call failed with status: 503"
ErrFormat == "API response format is unexpected or content is missing."
ErrTopic == "Please enter a topic to get started."
ErrGenerate == "Failed to generate content. Please try again."

\* how a fetch of lines 43-58 settles: it rejects, answers a status that is
\* not ok, answers without candidates, or answers a text
FetchOutcomes ==
    {[ok |-> FALSE, text |-> "", error |-> e] : e \in {ErrNetwork, ErrStatus, ErrFormat}}
    \cup {[ok |-> TRUE, text |-> t, error |-> ""] : t \in ApiTexts}

\* the state of the server, which the App component does not hold
server == <<usePostgres, dbInit, now, store, pc, req, last, spent, ghost,
            twin, users, verifiedEmails, entitlements, premium, data>>

\* onChange of the topic field (GeneratorForm.jsx line 14)
SetTopic(t) ==
    /\ t # app.topic
    /\ app' = [app EXCEPT !.topic = t]
    /\ UNCHANGED <<server, gen>>

\* onClick of a tab (GeneratorForm.jsx lines 33, 41, 49)
SetActiveTab(tab) ==
    /\ tab # app.activeTab
    /\ app' = [app EXCEPT !.activeTab = tab]
    /\ UNCHANGED <<server, gen>>

\* lines 71-151 and 38-47: generateContent up to the first fetch of
\* callApiWithBackoff.  The Generate button is disabled while loading, the
\* Enter key of the topic field is not (GeneratorForm.jsx lines 15 and 21)
GenerateContent(g) ==
    /\ gen[g].pc \in {"idle", "done"}
    /\ IF Trim(app.topic) = <<>>
       THEN /\ app' = [app EXCEPT !.error = ErrTopic]
            /\ UNCHANGED gen
       ELSE IF app.activeTab \notin Tabs
       THEN /\ app' = [app EXCEPT !.loading = FALSE, !.error = "", !.content = Null]
            /\ UNCHANGED gen
       ELSE /\ app' = [app EXCEPT !.loading = TRUE, !.error = "", !.content = Null]
            /\ gen' = [gen EXCEPT ![g] = [NoGen EXCEPT !.pc = "fetch",
                          !.topic = app.topic, !.tab = app.activeTab,
                          !.retries = Retries, !.delay = Delay, !.attempts = 1]]
    /\ UNCHANGED server

\* lines 150-168: generateContent after callApiWithBackoff has returned a
\* text or thrown.  db.logActivity of line 157 is not awaited and sets no state
Settled(g, threw, text) ==
    LET parsed == JsonParse(text)
    IN  IF threw \/ parsed.threw
        THEN app' = [app EXCEPT !.error = ErrGenerate, !.loading = FALSE]
        ELSE app' = [app EXCEPT !.content = parsed.value, !.loading = FALSE]

\* a catch block that retries once more than retries allows
CatchOnceMore(g, err) ==
    IF gen[g].retries >= 0
    THEN /\ gen' = [gen EXCEPT ![g].pc = "wait", ![g].waits = Append(@, gen[g].delay)]
         /\ UNCHANGED app
    ELSE /\ gen' = [gen EXCEPT ![g].pc = "done", ![g].thrown = err]
         /\ Settled(g, TRUE, "")

\* lines 59-67: the catch block of callApiWithBackoff, up to its setTimeout
Catch(g, err) ==
    IF gen[g].retries > 0
    THEN /\ gen' = [gen EXCEPT ![g].pc = "wait", ![g].waits = Append(@, gen[g].delay)]
         /\ UNCHANGED app
    ELSE /\ gen' = [gen EXCEPT ![g].pc = "done", ![g].thrown = err]
         /\ Settled(g, TRUE, "")

\* lines 43-58: the fetch of the current attempt settles
FetchSettles(g, o) ==
    /\ gen[g].pc = "fetch"
    /\ IF o.ok
       THEN /\ gen' = [gen EXCEPT ![g].pc = "done", ![g].text = o.text]
            /\ Settled(g, FALSE, o.text)
       ELSE Catch(g, o.error)
    /\ UNCHANGED server

\* lines 62-63: the timer fires and callApiWithBackoff(payload, retries - 1,
\* delay * 2) makes the next fetch
TimerFires(g) ==
    /\ gen[g].pc = "wait"
    /\ gen' = [gen EXCEPT ![g].pc = "fetch", ![g].retries = @ - 1,
                          ![g].delay = @ * 2, ![g].attempts = @ + 1]
    /\ UNCHANGED <<server, app>>

\* the invocation whose fetches are recorded in fetched
Traced == 1

BackoffFetch ==
    \E o \in FetchOutcomes : FetchSettles(Traced, o) /\ fetched' = Append(fetched, o)
BackoffTimer == TimerFires(Traced) /\ UNCHANGED fetched

\* one generateContent at a time, with the history of its fetches
BackoffNext ==
    \/ \E t \in Topics : SetTopic(t) /\ UNCHANGED fetched
    \/ \E tab \in Tabs : SetActiveTab(tab) /\ UNCHANGED fetched
    \/ GenerateContent(Traced) /\ fetched' = IF gen'[Traced].pc = "fetch" THEN <<>> ELSE fetched
    \/ BackoffFetch
    \/ BackoffTimer

\* every fetch settles and every timer fires
BackoffSpec ==
    Init /\ [][BackoffNext]_vars /\ WF_vars(BackoffFetch) /\ WF_vars(BackoffTimer)

\* the first n of the waits 1000, 2000, 4000
Backoff(waits, n) ==
    /\ Len(waits) = n
    /\ n <= 3
    /\ waits = SubSeq(<<1000, 2000, 4000>>, 1, n)

\* what holds of a callApiWithBackoff call at any instant
BackoffSafe ==
    LET c == gen[Traced]
        n == Len(fetched)
    IN  /\ c.attempts <= 4
        /\ c.pc = "fetch" => (c.attempts = n + 1 /\ Backoff(c.waits, n))
        /\ c.pc = "wait" => (c.attempts = n /\ Backoff(c.waits, n))
        /\ c.pc = "done" =>
              /\ c.attempts = n /\ Backoff(c.waits, n - 1)
              /\ \A i \in 1..(n - 1) : ~fetched[i].ok
              /\ IF fetched[n].ok
                 THEN c.thrown = "" /\ c.text = fetched[n].text
                 ELSE n = 4 /\ c.thrown = fetched[n].error

\* C25: callApiWithBackoff makes at most 4 attempts, waits 1000, 2000 and 4000
\* ms before the retries, returns the text of the first successful attempt and
\* makes no call after it, throws the error of the 4th failed attempt, and
\* terminates when every fetch settles
C25_BackoffTerminates ==
    /\ []BackoffSafe
    /\ [][gen[Traced].pc = "done" => (gen'[Traced].pc \in {"done", "fetch"} /\ fetched' \in {fetched, <<>>})]_vars
    /\ (gen[Traced].pc \in {"fetch", "wait"}) ~> (gen[Traced].pc = "done")

\* the 4th attempt has failed, after waits of 1000, 2000 and 4000 ms
C25_Witness ==
    /\ gen[Traced].pc = "done"
    /\ gen[Traced].thrown = ErrStatus
    /\ gen[Traced].waits = <<1000, 2000, 4000>>
    /\ Len(fetched) = 4

\* generateContent invocations that may overlap: the Enter key starts one
\* while another is loading
GenNext ==
    \/ \E t \in Topics : SetTopic(t) /\ UNCHANGED fetched
    \/ \E tab \in Tabs : SetActiveTab(tab) /\ UNCHANGED fetched
    \/ \E g \in Gens : GenerateContent(g) /\ UNCHANGED fetched
    \/ \E g \in Gens, o \in FetchOutcomes : FetchSettles(g, o) /\ UNCHANGED fetched
    \/ \E g \in Gens : TimerFires(g) /\ UNCHANGED fetched

GenSpec == Init /\ [][GenNext]_vars

\* C26: an invocation that starts with a non-blank topic sets loading to
\* true, and at the step that ends it loading is false and exactly one of
\* content (non-null) and error (non-empty) is set
C26_ExactlyOneOutcome ==
    [][\A g \in Gens :
          /\ (gen[g].pc # "fetch" /\ gen'[g].pc = "fetch") => app'.loading
          /\ (gen[g].pc # "done" /\ gen'[g].pc = "done") =>
                /\ ~app'.loading
                /\ (app'.content # Null) # (app'.error # "")]_vars

====
